---- MODULE Spec2Model ----
(***************************************************************************)
(* The estimation worker of src/worker.js: one fetch handler that answers  *)
(* a preflight, rejects methods other than POST, and otherwise parses a    *)
(* JSON array of server records, validates each record, and computes a     *)
(* time estimate per record, their total and a complexity tier.            *)
(*                                                                         *)
(* JavaScript numbers are IEEE-754 binary64 values.  They are modelled     *)
(* exactly: a finite double is (-1)^neg * m * 2^e with the 53-bit          *)
(* significand m held as a little-endian sequence of limbs, and * and +    *)
(* round to nearest, ties to even, as the language requires, down to the   *)
(* subnormals and up to Infinity.                                          *)
(***************************************************************************)
EXTENDS Integers, Sequences, FiniteSets, TLC

(***************************************************************************)
(* Natural numbers of arbitrary size, as little-endian limb sequences      *)
(* without high zero limbs (the empty sequence is 0).                      *)
(***************************************************************************)
LimbBits == 13
Base == 2^LimbBits
Precision == 53

Max(a, b) == IF a >= b THEN a ELSE b
Min(a, b) == IF a <= b THEN a ELSE b

Limb(a, i) == IF i >= 1 /\ i <= Len(a) THEN a[i] ELSE 0

RECURSIVE Trim(_)
Trim(s) == IF s # <<>> /\ s[Len(s)] = 0 THEN Trim(SubSeq(s, 1, Len(s) - 1)) ELSE s

RECURSIVE BFromInt(_)
BFromInt(n) == IF n = 0 THEN <<>> ELSE <<n % Base>> \o BFromInt(n \div Base)

\* The limbs lo..hi of s brought below Base with carry c coming in: the
\* limbs and the carry going out.  The range is halved, the low half first.
RECURSIVE CarryRange(_, _, _, _)
CarryJoin(low, high) == [limbs |-> low.limbs \o high.limbs, c |-> high.c]

CarryHigh(s, mid, hi, low) == CarryJoin(low, CarryRange(s, mid + 1, hi, low.c))

CarryRange(s, lo, hi, c) ==
    IF lo > hi THEN [limbs |-> <<>>, c |-> c]
    ELSE IF lo = hi
    THEN [limbs |-> <<(s[lo] + c) % Base>>, c |-> (s[lo] + c) \div Base]
    ELSE CarryHigh(s, (lo + hi) \div 2, hi, CarryRange(s, lo, (lo + hi) \div 2, c))

CarryOut(r) == r.limbs \o BFromInt(r.c)

Carry(s, c) == CarryOut(CarryRange(s, 1, Len(s), c))

BAdd(a, b) ==
    Trim(Carry([i \in 1..Max(Len(a), Len(b)) |-> Limb(a, i) + Limb(b, i)], 0))

RECURSIVE Conv(_, _, _, _)
Conv(a, b, k, i) ==
    IF i > Len(a) THEN 0 ELSE a[i] * Limb(b, k - i + 1) + Conv(a, b, k, i + 1)

\* The sum for each limb runs over the shorter factor; one factor of every
\* product taken here has few limbs.
BMul(a, b) ==
    IF a = <<>> \/ b = <<>> THEN <<>>
    ELSE LET short == IF Len(a) <= Len(b) THEN a ELSE b
             long  == IF Len(a) <= Len(b) THEN b ELSE a
         IN  Trim(Carry([k \in 1..(Len(a) + Len(b) - 1) |-> Conv(short, long, k, 1)], 0))

Pow2(s) ==
    [i \in 1..(s \div LimbBits + 1) |->
        IF i = s \div LimbBits + 1 THEN 2^(s % LimbBits) ELSE 0]

BShl(a, s) == BMul(a, Pow2(s))

BShr(a, s) ==
    LET ls == s \div LimbBits
        r  == s % LimbBits
    IN  IF Len(a) <= ls THEN <<>>
        ELSE Trim([i \in 1..(Len(a) - ls) |->
                     (Limb(a, i + ls) \div 2^r)
                     + (Limb(a, i + ls + 1) % 2^r) * 2^(LimbBits - r)])

BBit(a, i) == (Limb(a, i \div LimbBits + 1) \div 2^(i % LimbBits)) % 2

\* a mod 2^s is not 0
BLowNonZero(a, s) ==
    \E i \in 1..Len(a) :
        \/ i <= s \div LimbBits /\ a[i] # 0
        \/ i = s \div LimbBits + 1 /\ a[i] % 2^(s % LimbBits) # 0

BitLen(a) ==
    IF a = <<>> THEN 0
    ELSE LimbBits * (Len(a) - 1)
         + (CHOOSE k \in 1..LimbBits : 2^(k - 1) <= a[Len(a)] /\ a[Len(a)] < 2^k)

BLess(a, b) ==
    \/ Len(a) < Len(b)
    \/ /\ Len(a) = Len(b)
       /\ \E i \in 1..Len(a) :
            /\ a[i] < b[i]
            /\ \A j \in (i + 1)..Len(a) : a[j] = b[j]

\* Long division of the limbs lo..hi of a by a divisor d < Base, with
\* remainder r coming in from the limbs above: the quotient limbs, highest
\* first, and the remainder going out.  The range is halved, the high half
\* first.
RECURSIVE DivSmallRange(_, _, _, _, _)
DivJoin(high, low) == [q |-> high.q \o low.q, r |-> low.r]

DivLow(a, d, lo, mid, high) == DivJoin(high, DivSmallRange(a, d, lo, mid, high.r))

DivSmallRange(a, d, lo, hi, r) ==
    IF lo > hi THEN [q |-> <<>>, r |-> r]
    ELSE IF lo = hi
    THEN [q |-> <<(r * Base + a[lo]) \div d>>, r |-> (r * Base + a[lo]) % d]
    ELSE DivLow(a, d, lo, (lo + hi) \div 2,
                DivSmallRange(a, d, (lo + hi) \div 2 + 1, hi, r))

\* The quotient limbs lowest first and without high zero limbs, and whether
\* the division left a remainder.
DivResult(x) ==
    [q |-> Trim([i \in 1..Len(x.q) |-> x.q[Len(x.q) + 1 - i]]), inexact |-> x.r # 0]

\* floor(a / d) for d < Base, and whether anything was cut off
DivSmall(a, d) == DivResult(DivSmallRange(a, d, 1, Len(a), 0))

\* floor(N / 10^d), and whether anything was cut off
RECURSIVE DivPow10(_, _)
DivAlso(inexact, x) == [q |-> x.q, inexact |-> inexact \/ x.inexact]

DivRest(first, d) == DivAlso(first.inexact, DivPow10(first.q, d))

DivPow10(N, d) ==
    IF N = <<>> THEN [q |-> <<>>, inexact |-> FALSE]
    ELSE IF d <= 3 THEN DivSmall(N, 10^d)
    ELSE DivRest(DivPow10(N, d \div 2), d - d \div 2)

\* N * 10^k
RECURSIVE MulPow10(_, _)
MulPow10(N, k) ==
    IF N = <<>> THEN <<>>
    ELSE IF k <= 3 THEN BMul(<<10^k>>, N)
    ELSE MulPow10(MulPow10(N, k \div 2), k - k \div 2)

(***************************************************************************)
(* Doubles.  A finite double is (-1)^neg * m * 2^e.  Zero is m = <<>>;     *)
(* otherwise 2^52 <= m < 2^53, for a subnormal as well (its e is then      *)
(* below MinExp and its low bits are 0), so two finite doubles are the     *)
(* same number iff they are the same record.  Infinity has inf set, NaN    *)
(* has nan set.                                                            *)
(***************************************************************************)
\* The exponent of the smallest positive double, 2^-1074, and the exponent
\* no finite double reaches: every finite double is below 2^1024.
MinExp == -1074
MaxExp == 1024

Zero     == [nan |-> FALSE, inf |-> FALSE, neg |-> FALSE, m |-> <<>>, e |-> 0]
NaN      == [nan |-> TRUE,  inf |-> FALSE, neg |-> FALSE, m |-> <<>>, e |-> 0]
Infinity == [nan |-> FALSE, inf |-> TRUE,  neg |-> FALSE, m |-> <<>>, e |-> 0]

\* r * 2^e as a double, for a natural r of Lr bits that is below
\* 2^Precision or is 2^Precision.
Pack(r, e, Lr) ==
    IF Lr = 0 THEN Zero
    ELSE IF e + Lr > MaxExp THEN Infinity
    ELSE [nan |-> FALSE, inf |-> FALSE, neg |-> FALSE,
          m |-> IF Lr > Precision THEN Pow2(Precision - 1)
                ELSE BShl(r, Precision - Lr),
          e |-> e + Lr - Precision]

\* q, the bits of N from bit s up, rounded by the bits of N below bit s: to
\* nearest, ties to even
RoundAt(N, s, q) ==
    IF s > 0 /\ BBit(N, s - 1) = 1 /\ (BLowNonZero(N, s - 1) \/ BBit(q, 0) = 1)
    THEN BAdd(q, <<1>>)
    ELSE q

PackRounded(r, e) == Pack(r, e, BitLen(r))

CutAt(N, e, s) == PackRounded(RoundAt(N, s, BShr(N, s)), e + s)

\* The double nearest to N * 2^e, ties to even: N is cut to Precision bits,
\* or at 2^MinExp when that is coarser (a subnormal result); a result of
\* 2^MaxExp or more is Infinity.
RoundToDouble(N, e) == CutAt(N, e, Max(Max(BitLen(N) - Precision, MinExp - e), 0))

\* 2 * q, plus 1 when the division that gave q cut something off
WithSticky(qr) == BAdd(BAdd(qr.q, qr.q), IF qr.inexact THEN <<1>> ELSE <<>>)

\* The double nearest to a / 10^d (a * 10^-d when d < 0) for a natural a.
\* The quotient is taken with g binary places; what the division cuts off
\* is kept as one more low bit.
Scaled(a, d, g) ==
    RoundToDouble(
        WithSticky(DivPow10(BShl(MulPow10(BFromInt(a), Max(0 - d, 0)), g), Max(d, 0))),
        0 - g - 1)

\* The double a decimal numeral denotes: n / 10^d, n of either sign, d of
\* either sign.  64 + 4 * d binary places leave the quotient more than
\* Precision + 2 bits and reach below 2^MinExp.
FromDecimal(n, d) ==
    [Scaled(IF n < 0 THEN 0 - n ELSE n, d, IF d > 0 THEN 64 + 4 * d ELSE 0)
        EXCEPT !.neg = (n < 0)]

\* x * y
FMul(x, y) ==
    IF x.nan \/ y.nan THEN NaN
    ELSE IF x.inf \/ y.inf
    THEN IF (~x.inf /\ x.m = <<>>) \/ (~y.inf /\ y.m = <<>>) THEN NaN
         ELSE [Infinity EXCEPT !.neg = (x.neg # y.neg)]
    ELSE [RoundToDouble(BMul(x.m, y.m), x.e + y.e) EXCEPT !.neg = (x.neg # y.neg)]

\* The sum of two positive finite doubles, taken exactly in units of 2^e
AddAligned(x, y, e) ==
    RoundToDouble(BAdd(BShl(x.m, x.e - e), BShl(y.m, y.e - e)), e)

\* x + y, for operands that are not negative (the only sums of the program:
\* a running total that starts at 0 and products of positive numbers)
FAdd(x, y) ==
    IF x.nan \/ y.nan THEN NaN
    ELSE IF x.inf \/ y.inf THEN Infinity
    ELSE IF x.m = <<>> THEN y
    ELSE IF y.m = <<>> THEN x
    ELSE AddAligned(x, y, Min(x.e, y.e))

\* x <= 0; false when x is NaN
FLeZero(x) == ~x.nan /\ (x.neg \/ (~x.inf /\ x.m = <<>>))

\* x > y for y >= 0; false when either is NaN
FGt(x, y) ==
    /\ ~x.nan /\ ~y.nan
    /\ ~x.neg /\ ~y.inf
    /\ \/ x.inf
       \/ /\ x.m # <<>>
          /\ \/ y.m = <<>>
             \/ x.e > y.e
             \/ x.e = y.e /\ BLess(y.m, x.m)

(***************************************************************************)
(* JavaScript values.  A JSON text is the same tree with its numbers still *)
(* numerals (kind "numeral", n / 10^d); request.json() turns each numeral  *)
(* into the double it denotes.  A numeric literal of the source is a       *)
(* numeral as well, and denotes its double where it is used.  An object    *)
(* carries the four properties the program reads and an own property       *)
(* toString, which decides how the object turns into a property key; a     *)
(* property the object does not have reads as undefined.                   *)
(***************************************************************************)
Undefined   == [kind |-> "undefined"]
Null        == [kind |-> "null"]
Bool(b)     == [kind |-> "boolean", b |-> b]
Str(s)      == [kind |-> "string", s |-> s]
Numeral(n, d) == [kind |-> "numeral", n |-> n, d |-> d]
Number(x)   == [kind |-> "number", value |-> x]
Array(items) == [kind |-> "array", items |-> items]
Function    == [kind |-> "function"]
ObjectWithToString(type, manufacturer, model, quantity, toString) ==
    [kind |-> "object", type |-> type, manufacturer |-> manufacturer,
     model |-> model, quantity |-> quantity, toString |-> toString]
Object(type, manufacturer, model, quantity) ==
    ObjectWithToString(type, manufacturer, model, quantity, Undefined)
EmptyObject == Object(Undefined, Undefined, Undefined, Undefined)

\* The numerals with long exponents that requests carry, and their doubles,
\* converted once.
LongNumerals ==
    {Numeral(7, -307), Numeral(1, -308), Numeral(5, 324), Numeral(1, -400),
     Numeral(-1, 400)}

Converted == {<<t, FromDecimal(t.n, t.d)>> : t \in LongNumerals}

\* The double the numeral t denotes.
DoubleOf(t) ==
    IF t \in LongNumerals THEN (CHOOSE p \in Converted : p[1] = t)[2]
    ELSE FromDecimal(t.n, t.d)

RECURSIVE JSONParse(_)
JSONParse(t) ==
    CASE t.kind = "numeral" -> Number(DoubleOf(t))
      [] t.kind = "array"   -> Array([i \in 1..Len(t.items) |-> JSONParse(t.items[i])])
      [] t.kind = "object"  -> [f \in DOMAIN t |->
                                  IF f = "kind" THEN t[f] ELSE JSONParse(t[f])]
      [] OTHER              -> t

\* typeof v
TypeOf(v) ==
    CASE v.kind \in {"null", "array", "object"} -> "object"
      [] OTHER -> v.kind

\* ToBoolean(v)
Truthy(v) ==
    CASE v.kind \in {"undefined", "null"} -> FALSE
      [] v.kind = "boolean" -> v.b
      [] v.kind = "number"  -> ~v.value.nan /\ (v.value.inf \/ v.value.m # <<>>)
      [] v.kind = "numeral" -> v.n # 0
      [] v.kind = "string"  -> v.s # ""
      [] OTHER -> TRUE

\* ToNumber(v) for the operands of * and > that the program can meet: a
\* number is itself, a literal is the double it denotes; a function or an
\* object has no numeric value.
ToNumber(v) ==
    CASE v.kind = "number"  -> v.value
      [] v.kind = "numeral" -> DoubleOf(v)
      [] OTHER -> NaN

\* What a failed conversion of an object to a primitive throws; the text of
\* the message is the runtime's.
TypeErrorMessage == "Cannot convert object to primitive value"

\* ToString(v), as [threw, s].  A number's text is its decimal form, which
\* is never the name of a property of the objects read here; it is kept as
\* one fixed string.  An array is its elements joined by commas, null and
\* undefined elements as empty strings.  An object from JSON has no callable
\* property of its own: with an own toString it cannot be converted (the
\* valueOf it has or inherits gives no primitive either), without one it
\* inherits Object.prototype.toString.
RECURSIVE ToStringOf(_)
RECURSIVE Join(_, _)
Join(items, i) ==
    IF i > Len(items) THEN [threw |-> FALSE, s |-> ""]
    ELSE LET head == IF items[i].kind \in {"null", "undefined"}
                     THEN [threw |-> FALSE, s |-> ""]
                     ELSE ToStringOf(items[i])
             rest == Join(items, i + 1)
         IN  IF head.threw \/ rest.threw THEN [threw |-> TRUE, s |-> ""]
             ELSE [threw |-> FALSE,
                   s |-> IF i < Len(items) THEN head.s \o "," \o rest.s ELSE head.s]

ToStringOf(v) ==
    CASE v.kind = "string"    -> [threw |-> FALSE, s |-> v.s]
      [] v.kind = "number"    -> [threw |-> FALSE, s |-> "<number>"]
      [] v.kind = "boolean"   -> [threw |-> FALSE, s |-> IF v.b THEN "true" ELSE "false"]
      [] v.kind = "array"     -> Join(v.items, 1)
      [] v.kind = "object"    -> IF v.toString # Undefined
                                 THEN [threw |-> TRUE, s |-> ""]
                                 ELSE [threw |-> FALSE, s |-> "[object Object]"]
      [] OTHER                -> [threw |-> FALSE, s |-> v.kind]

\* The property key a value used in obj[v] turns into.
ToPropertyKey(v) == ToStringOf(v)

\* server[field] for a non-null value of type object; an array has none of
\* the four properties.
Get(server, field) == IF server.kind = "object" THEN server[field] ELSE Undefined

\* What every plain object inherits from Object.prototype: methods, and the
\* __proto__ accessor, which yields Object.prototype itself.
ObjectPrototypeMethods ==
    {"constructor", "toString", "toLocaleString", "valueOf", "hasOwnProperty",
     "isPrototypeOf", "propertyIsEnumerable", "__defineGetter__",
     "__defineSetter__", "__lookupGetter__", "__lookupSetter__"}

\* table[key] for an object literal: an own property, else an inherited one,
\* else undefined.
GetProperty(own, key) ==
    IF key \in DOMAIN own THEN own[key]
    ELSE IF key \in ObjectPrototypeMethods THEN Function
    ELSE IF key = "__proto__" THEN EmptyObject
    ELSE Undefined

(***************************************************************************)
(* The handler.                                                            *)
(***************************************************************************)
corsHeaders ==
    ("Access-Control-Allow-Origin" :> "*")
    @@ ("Access-Control-Allow-Methods" :> "POST,OPTIONS")
    @@ ("Access-Control-Max-Age" :> "86400")
    @@ ("Access-Control-Allow-Headers" :> "Content-Type")

\* Variant: the headers object without the spread of corsHeaders.
jsonHeadersWithoutCors == ("Content-Type" :> "application/json")

\* { ...corsHeaders, 'Content-Type': 'application/json' }
jsonHeaders == ("Content-Type" :> "application/json") @@ corsHeaders

\* new Response(body, init): the status is init.status, or 200 when init has
\* none; the headers are init.headers, and a body that is a string gets
\* Content-Type text/plain;charset=UTF-8 when init.headers has no
\* Content-Type.  text tells that the body is a string (null otherwise).
NewResponse(body, text, init) ==
    [status  |-> IF "status" \in DOMAIN init THEN init.status ELSE 200,
     headers |-> IF text /\ "Content-Type" \notin DOMAIN init.headers
                 THEN ("Content-Type" :> "text/plain;charset=UTF-8") @@ init.headers
                 ELSE init.headers,
     body    |-> body]

ESTIMATION_FACTORS ==
    [rack   |-> [baseTime |-> Numeral(2, 0),
                 complexityMultiplier |-> Numeral(12, 1)],
     blade  |-> [baseTime |-> Numeral(3, 0),
                 complexityMultiplier |-> Numeral(15, 1)],
     custom |-> [baseTime |-> Numeral(4, 0),
                 complexityMultiplier |-> Numeral(2, 0)],
     manufacturers |->
         ("Dell" :> Numeral(9, 1))
         @@ ("HP" :> Numeral(10, 1))
         @@ ("Lenovo" :> Numeral(11, 1))
         @@ ("SuperMicro" :> Numeral(12, 1))]

requiredFields == <<"type", "manufacturer", "model", "quantity">>

NoError == "<no error>"

\* Variant: the quantity check without its typeof test, so that only a
\* number that is <= 0 is refused.
validateServerAnyQuantityType(server) ==
    IF TypeOf(server) # "object" \/ server.kind = "null"
    THEN "Invalid server object"
    ELSE IF \E i \in 1..Len(requiredFields) : ~Truthy(Get(server, requiredFields[i]))
    THEN LET i == CHOOSE j \in 1..Len(requiredFields) :
                     /\ ~Truthy(Get(server, requiredFields[j]))
                     /\ \A k \in 1..(j - 1) : Truthy(Get(server, requiredFields[k]))
         IN  "Missing required field: " \o requiredFields[i]
    ELSE IF Get(server, "type") \notin {Str("rack"), Str("blade"), Str("custom")}
    THEN "Invalid server type"
    ELSE IF /\ TypeOf(Get(server, "quantity")) = "number"
            /\ FLeZero(Get(server, "quantity").value)
    THEN "Quantity must be a positive number"
    ELSE NoError

\* validateServer(server): the message of the Error it throws, or NoError
\* when it returns.
validateServer(server) ==
    IF TypeOf(server) # "object" \/ server.kind = "null"
    THEN "Invalid server object"
    ELSE IF \E i \in 1..Len(requiredFields) : ~Truthy(Get(server, requiredFields[i]))
    THEN LET i == CHOOSE j \in 1..Len(requiredFields) :
                     /\ ~Truthy(Get(server, requiredFields[j]))
                     /\ \A k \in 1..(j - 1) : Truthy(Get(server, requiredFields[k]))
         IN  "Missing required field: " \o requiredFields[i]
    ELSE IF Get(server, "type") \notin {Str("rack"), Str("blade"), Str("custom")}
    THEN "Invalid server type"
    ELSE IF \/ TypeOf(Get(server, "quantity")) # "number"
            \/ FLeZero(Get(server, "quantity").value)
    THEN "Quantity must be a positive number"
    ELSE NoError

\* found || 1
OrOne(found) == IF Truthy(found) THEN found ELSE Numeral(1, 0)

\* ESTIMATION_FACTORS.manufacturers[key] || 1 for the outcome of the key
\* conversion, as [threw, value].
Lookup(key) ==
    IF key.threw THEN [threw |-> TRUE, value |-> Undefined]
    ELSE [threw |-> FALSE,
          value |-> OrOne(GetProperty(ESTIMATION_FACTORS.manufacturers, key.s))]

\* ESTIMATION_FACTORS.manufacturers[server.manufacturer] || 1, as
\* [threw, value]: the lookup throws a TypeError when the manufacturer cannot
\* be turned into a property key.
manufacturerFactor(server) == Lookup(ToPropertyKey(server.manufacturer))

\* a * b * c * d, evaluated left to right: ((a * b) * c) * d
RECURSIVE ProductFrom(_, _, _)
ProductFrom(acc, operands, i) ==
    IF i > Len(operands) THEN acc
    ELSE ProductFrom(FMul(acc, operands[i]), operands, i + 1)

ProductOf(operands) == ProductFrom(operands[1], operands, 2)

Product(operands) == ProductOf([i \in 1..Len(operands) |-> ToNumber(operands[i])])

\* Variant: the product without the complexity multiplier.
serverTimeWithoutComplexity(server, factor) ==
    Product(<<ESTIMATION_FACTORS[server.type.s].baseTime, factor, server.quantity>>)

\* baseTime * manufacturerFactor * typeFactors.complexityMultiplier * server.quantity
serverTime(server, factor) ==
    Product(<<ESTIMATION_FACTORS[server.type.s].baseTime, factor,
              ESTIMATION_FACTORS[server.type.s].complexityMultiplier,
              server.quantity>>)

\* Variant: the entry with its model taken from the manufacturer.
EntryModelFromManufacturer(server, time) ==
    [type |-> server.type, manufacturer |-> server.manufacturer,
     model |-> server.manufacturer, quantity |-> server.quantity,
     estimatedTime |-> Number(time)]

\* The object the map callback returns for one server.
Entry(server, time) ==
    [type |-> server.type, manufacturer |-> server.manufacturer,
     model |-> server.model, quantity |-> server.quantity,
     estimatedTime |-> Number(time)]

\* The callback after validateServer has returned: the TypeError of the
\* manufacturer lookup, or the entry.
Estimate(server, factor) ==
    IF factor.threw THEN [threw |-> TRUE, message |-> TypeErrorMessage]
    ELSE [threw |-> FALSE, entry |-> Entry(server, serverTime(server, factor.value))]

\* The callback for the outcome of validateServer.
Validated(server, message) ==
    IF message # NoError THEN [threw |-> TRUE, message |-> message]
    ELSE Estimate(server, manufacturerFactor(server))

\* The map callback for one server: the Error it throws (from validateServer
\* or from the manufacturer lookup), or the entry it returns; the serverTime
\* it adds to totalTime is the entry's estimatedTime.
Callback(server) == Validated(server, validateServer(server))

RECURSIVE MapServers(_, _, _, _)

\* Variant: a best-effort map that leaves out a server whose callback throws.
AccumulateSkipInvalid(servers, i, totalTime, breakdown, c) ==
    IF c.threw
    THEN MapServers(servers, i + 1, totalTime, breakdown)
    ELSE MapServers(servers, i + 1, FAdd(totalTime, c.entry.estimatedTime.value),
                    Append(breakdown, c.entry))

\* Variant: totalTime = serverTime in place of totalTime += serverTime.
AccumulateOverwriteTotal(servers, i, totalTime, breakdown, c) ==
    IF c.threw
    THEN [threw |-> TRUE, message |-> c.message]
    ELSE MapServers(servers, i + 1, c.entry.estimatedTime.value,
                    Append(breakdown, c.entry))

\* The map after the callback for server i gave c: it ends with the Error
\* thrown, or goes on with totalTime += serverTime and the entry collected.
Accumulate(servers, i, totalTime, breakdown, c) ==
    IF c.threw
    THEN [threw |-> TRUE, message |-> c.message]
    ELSE MapServers(servers, i + 1, FAdd(totalTime, c.entry.estimatedTime.value),
                    Append(breakdown, c.entry))

\* servers.map(...) from index i on, with the running totalTime: either the
\* callback throws at some server and the map ends there, or the map
\* completes.
MapServers(servers, i, totalTime, breakdown) ==
    IF i > Len(servers)
    THEN [threw |-> FALSE, totalTime |-> totalTime, breakdownByServer |-> breakdown]
    ELSE Accumulate(servers, i, totalTime, breakdown, Callback(servers[i]))

\* The tier for the set of thresholds totalTime passes.
Tier(passed) ==
    IF 20 \in passed THEN "High"
    ELSE IF 10 \in passed THEN "Medium"
    ELSE "Low"

\* Variant: the thresholds tested with >= in place of >.
ComplexityInclusive(totalTime) ==
    Tier({n \in {10, 20} : \/ FGt(totalTime, ToNumber(Numeral(n, 0)))
                           \/ totalTime = ToNumber(Numeral(n, 0))})

\* let complexity = 'Low'; if (totalTime > 20) ... else if (totalTime > 10) ...
Complexity(totalTime) ==
    Tier({n \in {10, 20} : FGt(totalTime, ToNumber(Numeral(n, 0)))})

\* The value calculateEstimation returns once the map has completed, or the
\* Error the map threw.
Estimation(r) ==
    IF r.threw THEN r
    ELSE [threw |-> FALSE,
          value |-> [totalTime |-> Number(r.totalTime),
                     breakdownByServer |-> r.breakdownByServer,
                     complexity |-> Complexity(r.totalTime)]]

calculateEstimation(servers) == Estimation(MapServers(servers, 1, Zero, <<>>))

\* JSON.stringify of a number: NaN, Infinity and -Infinity are written as
\* null, 0 and -0 as 0; any other double is written as the shortest numeral
\* that reads back as the same double.
StringifyNumber(v) ==
    IF v.value.nan \/ v.value.inf THEN Null
    ELSE IF v.value.m = <<>> THEN Number(Zero)
    ELSE v

\* JSON.stringify of a value, as the JSON value the text denotes.
RECURSIVE StringifyValue(_)
StringifyValue(v) ==
    CASE v.kind = "number" -> StringifyNumber(v)
      [] v.kind = "array"  -> Array([i \in 1..Len(v.items) |-> StringifyValue(v.items[i])])
      [] v.kind = "object" -> [f \in DOMAIN v |->
                                 IF f = "kind" THEN v[f] ELSE StringifyValue(v[f])]
      [] OTHER             -> v

\* JSON.stringify(result), as the JSON value the text denotes.
JSONStringify(result) ==
    [totalTime |-> StringifyNumber(result.totalTime),
     breakdownByServer |->
         [i \in 1..Len(result.breakdownByServer) |->
             [f \in DOMAIN result.breakdownByServer[i] |->
                 StringifyValue(result.breakdownByServer[i][f])]],
     complexity |-> result.complexity]

\* What request.json() throws for a body that is not JSON; the text of the
\* message is the runtime's.
SyntaxErrorMessage == "<SyntaxError message>"

\* A local constant of the handler that has not been assigned.
NotAssigned == [kind |-> "unassigned"]

\* The try block after calculateEstimation(servers) returned or threw.
Respond(servers, result) ==
    IF result.threw
    THEN [threw |-> TRUE, isError |-> TRUE, message |-> result.message,
          servers |-> servers, result |-> NotAssigned,
          calls |-> <<"calculateEstimation">>]
    ELSE [threw |-> FALSE,
          response |-> NewResponse(JSONStringify(result.value), TRUE,
                                   [status |-> 200, headers |-> jsonHeaders]),
          servers |-> servers, result |-> result.value,
          calls |-> <<"calculateEstimation">>]

\* The try block after request.json() gave servers.
Parsed(servers) ==
    IF servers.kind # "array"
    THEN [threw |-> TRUE, isError |-> TRUE,
          message |-> "Input must be an array of servers",
          servers |-> servers, result |-> NotAssigned, calls |-> <<>>]
    ELSE Respond(servers, calculateEstimation(servers.items))

\* The try block from the point where request.json() settles: the Response
\* it returns or the Error it throws, with the values servers and result
\* were given and the calls entered on the way.
TryBlock(body) ==
    IF body.kind = "unparseable"
    THEN [threw |-> TRUE, isError |-> TRUE, message |-> SyntaxErrorMessage,
          servers |-> NotAssigned, result |-> NotAssigned, calls |-> <<>>]
    ELSE Parsed(JSONParse(body))

\* catch (error) { ... } for the outcome t of the try block
Catch(t) ==
    IF t.threw
    THEN NewResponse([error |-> IF t.isError THEN t.message ELSE "Unknown error"],
                     TRUE, [status |-> 400, headers |-> jsonHeaders])
    ELSE t.response

(***************************************************************************)
(* Requests.  Batches of up to MaxLen records are drawn from BatchServers,  *)
(* which holds records of every outcome; single-record batches are drawn   *)
(* from the whole product of the field values below.  Quantities run from  *)
(* the smallest positive double (5e-324) to numerals beyond the largest    *)
(* (1e400, which reads as Infinity).                                       *)
(***************************************************************************)
MaxLen == 3

Methods == {"OPTIONS", "POST", "GET"}

Rec(type, manufacturer, model, n, d) ==
    Object(Str(type), Str(manufacturer), Str(model), Numeral(n, d))

\* {"toString": 1}
ToStringObject ==
    ObjectWithToString(Undefined, Undefined, Undefined, Undefined, Numeral(1, 0))

BatchServers ==
    { Rec("rack", "Dell", "R740", 1, 0),
      Rec("rack", "Dell", "R740", 2, 0),
      Object(Str("rack"), Str("Lenovo"), Array(<<Numeral(-1, 400)>>), Numeral(5, 0)),
      Rec("custom", "HP", "X", 125, 2),
      Rec("custom", "HP", "R740", 25, 1),
      Rec("blade", "Unknown", "X", 5, 0),
      Rec("rack", "constructor", "X", 1, 0),
      Rec("rack", "HP", "X", 7, -307),
      Object(Str("rack"), ToStringObject, Str("X"), Numeral(1, 0)),
      Object(Str("rack"), Str("Dell"), Str("R740"), Undefined),
      Object(Undefined, Str("HP"), Str("X"), Str("five")),
      Null }

TypeTexts == {Undefined, Str("rack"), Str("blade"), Str("custom"), Str("tower"),
              Numeral(1, 0)}
ManufacturerTexts ==
    {Str(""), Str("Dell"), Str("HP"), Str("Lenovo"), Str("SuperMicro"),
     Str("Unknown"), Str("constructor"), Str("__proto__"), Numeral(5, 0),
     Bool(TRUE), Array(<<Str("Dell")>>), Array(<<Null>>), EmptyObject,
     ToStringObject}
\* The last one is [-1e-400], which reads as [-0].
ModelTexts == {Null, Str("R740"), Str("X"), Array(<<Numeral(-1, 400)>>)}
QuantityTexts ==
    {Undefined, Numeral(0, 0), Numeral(-1, 0), Str("five"), Bool(TRUE),
     Numeral(1, 0), Numeral(25, 1), Numeral(5, 0), Numeral(5, 324),
     Numeral(1, -308), Numeral(1, -400)}

SingleServers ==
    { Object(t, m, o, q) : t \in TypeTexts, m \in ManufacturerTexts,
                           o \in ModelTexts, q \in QuantityTexts }
    \cup {Null, Numeral(7, 0), Str("rack"), Bool(TRUE), Array(<<>>)}

RECURSIVE Batches(_, _)
Batches(S, n) ==
    IF n = 0 THEN {<<>>}
    ELSE LET B == Batches(S, n - 1)
         IN  B \cup {Append(b, s) : b \in {x \in B : Len(x) = n - 1}, s \in S}

Bodies ==
    {[kind |-> "unparseable"], EmptyObject, Null, Numeral(1, 0), Str("rack")}
    \cup {Array(b) : b \in Batches(BatchServers, MaxLen)}
    \cup {Array(<<s>>) : s \in SingleServers}

(***************************************************************************)
(* One run of fetch(request).  servers and result are the local constants  *)
(* of the try block and of calculateEstimation's caller; calls lists the   *)
(* calls entered so far.  The handler suspends once, at                    *)
(* await request.json(), and runs to its return from there.                *)
(***************************************************************************)
VARIABLES request, servers, result, response, calls, pc
vars == <<request, servers, result, response, calls, pc>>

NoResponse == [status |-> 0]

Init ==
    /\ request \in [method : Methods, body : Bodies]
    /\ servers = NotAssigned
    /\ result = NotAssigned
    /\ response = NoResponse
    /\ calls = <<>>
    /\ pc = "received"

\* if (request.method === 'OPTIONS') return new Response(null, { headers })
Preflight ==
    /\ pc = "received"
    /\ request.method = "OPTIONS"
    /\ response' = NewResponse(Null, FALSE, [headers |-> corsHeaders])
    /\ pc' = "responded"
    /\ UNCHANGED <<request, servers, result, calls>>

\* if (request.method !== 'POST') return new Response('Method Not Allowed', ...)
MethodNotAllowed ==
    /\ pc = "received"
    /\ request.method # "OPTIONS"
    /\ request.method # "POST"
    /\ response' = NewResponse(Str("Method Not Allowed"), TRUE,
                               [status |-> 405, headers |-> corsHeaders])
    /\ pc' = "responded"
    /\ UNCHANGED <<request, servers, result, calls>>

\* A POST enters the try block, calls request.json() and suspends on its
\* promise.
AwaitJson ==
    /\ pc = "received"
    /\ request.method = "POST"
    /\ calls' = Append(calls, "request.json")
    /\ pc' = "awaiting"
    /\ UNCHANGED <<request, servers, result, response>>

\* The promise settles and the handler runs on to its return: through the
\* rest of the try block, or into the catch block.
Resume ==
    /\ pc = "awaiting"
    /\ \E t \in {TryBlock(request.body)} :
           /\ servers' = t.servers
           /\ result' = t.result
           /\ response' = Catch(t)
           /\ calls' = calls \o t.calls
    /\ pc' = "responded"
    /\ UNCHANGED request

fetch == Preflight \/ MethodNotAllowed \/ AwaitJson \/ Resume

Next == fetch

Spec == Init /\ [][Next]_vars

(***************************************************************************)
(* Properties.  They are stated on the request, on what the handler        *)
(* computed for it and on the response it gave.                            *)
(***************************************************************************)
Responded == pc = "responded"
IsPost    == request.method = "POST"
\* request.json() yielded an array
IsBatch   == servers.kind = "array"
Servers   == servers.items
Succeeded == Responded /\ IsPost /\ response.status = 200
\* calculateEstimation returned
HasResult == Responded /\ result # NotAssigned
Entries   == result.breakdownByServer
Breakdown == response.body.breakdownByServer

KnownManufacturers == {Str("Dell"), Str("HP"), Str("Lenovo"), Str("SuperMicro")}
ServerTypes == {Str("rack"), Str("blade"), Str("custom")}

\* The values JavaScript treats as false, among those JSON can carry, and
\* undefined for a property that is absent.
Falsy == {Undefined, Null, Bool(FALSE), Str(""), Number(Zero),
          Number([Zero EXCEPT !.neg = TRUE])}

\* x is a number greater than 0
Positive(x) == ~x.nan /\ ~x.neg /\ (x.inf \/ x.m # <<>>)

\* A record as the data model defines validity: a non-null object with the
\* four fields present and truthy, a type of the enum, a quantity that is a
\* number greater than 0.
IsValidRecord(s) ==
    /\ s.kind = "object"
    /\ \A f \in {"type", "manufacturer", "model", "quantity"} : s[f] \notin Falsy
    /\ s.type \in ServerTypes
    /\ s.quantity.kind = "number"
    /\ Positive(s.quantity.value)

AllValid == \A i \in 1..Len(Servers) : IsValidRecord(Servers[i])

\* base * multiplier * complexityMultiplier * quantity for record s, as
\* doubles, left to right
Expected(s, multiplier) ==
    LET f == ESTIMATION_FACTORS[s.type.s]
    IN  Number(FMul(FMul(FMul(ToNumber(f.baseTime), multiplier),
                         ToNumber(f.complexityMultiplier)),
                    s.quantity.value))

\* C1: for every valid record of a known manufacturer, the estimatedTime of
\* its entry is the double product
\* ((baseTime * manufacturer multiplier) * complexityMultiplier) * quantity,
\* neither rounded further nor clamped (Infinity when the product overflows,
\* which the response writes as null); rack/Dell/1 gives 2.16.
C1_EstimatedTimeFormula ==
    HasResult =>
        \A i \in 1..Len(Servers) :
            LET s == Servers[i]
            IN  s.manufacturer \in KnownManufacturers =>
                  /\ Entries[i].estimatedTime =
                       Expected(s, ToNumber(ESTIMATION_FACTORS.manufacturers[s.manufacturer.s]))
                  /\ Breakdown[i].estimatedTime = StringifyNumber(Entries[i].estimatedTime)
                  /\ (s.type = Str("rack") /\ s.manufacturer = Str("Dell")
                      /\ s.quantity = Number(FromDecimal(1, 0)))
                     => Breakdown[i].estimatedTime = Number(FromDecimal(216, 2))

C1_Witness ==
    /\ HasResult
    /\ Len(Servers) = 2
    /\ Servers[1].type = Str("rack") /\ Servers[1].manufacturer = Str("Dell")
    /\ Breakdown[1].estimatedTime = Number(FromDecimal(216, 2))
    /\ Servers[2].manufacturer = Str("HP")
    /\ Entries[2].estimatedTime = Number(FromDecimal(168, -306))

\* C2: for every valid record whose manufacturer is not one of the four keys
\* of the manufacturer table, whatever else it is, the batch gets a result
\* and the entry's estimatedTime is
\* baseTime * 1.0 * complexityMultiplier * quantity.
C2_UnknownManufacturerIsNeutral ==
    (Responded /\ IsPost /\ IsBatch /\ AllValid) =>
        /\ HasResult
        /\ \A i \in 1..Len(Servers) :
              Servers[i].manufacturer \notin KnownManufacturers =>
                  Entries[i].estimatedTime = Expected(Servers[i], FromDecimal(10, 1))

\* C3: a batch with an invalid record at any position is answered with an
\* error body only: no totalTime, no complexity, no breakdown.
C3_NoPartialResult ==
    (Responded /\ IsPost /\ IsBatch /\ ~AllValid) =>
        /\ response.status = 400
        /\ DOMAIN response.body = {"error"}
        /\ result = NotAssigned

C3_Witness ==
    /\ Responded /\ IsPost /\ IsBatch
    /\ Len(Servers) = MaxLen
    /\ \A i \in 1..(MaxLen - 1) :
          IsValidRecord(Servers[i]) /\ ~ToPropertyKey(Servers[i].manufacturer).threw
    /\ ~IsValidRecord(Servers[MaxLen])
    /\ DOMAIN response.body = {"error"}

\* C4: the validator accepts a record exactly when it is valid as the data
\* model defines it: a non-null object, the four fields present and truthy,
\* a type of the enum, a quantity that is a number greater than 0.
C4_ValidatorAcceptsIffValid ==
    (Responded /\ IsPost /\ IsBatch) =>
        \A i \in 1..Len(Servers) :
            (validateServer(Servers[i]) = NoError) <=> IsValidRecord(Servers[i])

C4_Witness ==
    /\ Responded /\ IsPost /\ IsBatch
    /\ Len(Servers) = 1
    /\ Servers[1].kind = "object"
    /\ Servers[1].type \in ServerTypes
    /\ Servers[1].quantity = Bool(TRUE)
    /\ validateServer(Servers[1]) = "Quantity must be a positive number"
    /\ response.status = 400

\* C5: the complexity of a result is High when totalTime > 20, Medium when
\* 10 < totalTime <= 20, Low when totalTime <= 10, whatever the records that
\* add up to it, and the response carries it.
C5_ComplexityThresholds ==
    HasResult =>
        LET t      == result.totalTime.value
            twenty == FromDecimal(20, 0)
            ten    == FromDecimal(10, 0)
        IN  /\ FGt(t, twenty) => result.complexity = "High"
            /\ (FGt(t, ten) /\ ~FGt(t, twenty)) => result.complexity = "Medium"
            /\ (~FGt(t, ten) /\ ~t.nan) => result.complexity = "Low"
            /\ t = twenty => result.complexity = "Medium"
            /\ t = ten => result.complexity = "Low"
            /\ response.body.complexity = result.complexity

C5_Witness ==
    /\ HasResult
    /\ Len(Servers) = 2
    /\ result.totalTime = Number(FromDecimal(20, 0))
    /\ response.body.complexity = "Medium"

\* The estimatedTime values of the entries added up from 0 in the order
\* given.
RECURSIVE SumFrom(_, _, _, _)
SumFrom(acc, entries, order, k) ==
    IF k > Len(order) THEN acc
    ELSE SumFrom(FAdd(acc, entries[order[k]].estimatedTime.value), entries, order, k + 1)

SumInOrder(entries, order) == Number(SumFrom(Zero, entries, order, 1))

Orders(n) == {p \in [1..n -> 1..n] : \A i, j \in 1..n : p[i] = p[j] => i = j}

EmptyBatchResult ==
    (Responded /\ IsPost /\ IsBatch /\ Servers = <<>>) =>
        /\ result = [totalTime |-> Number(Zero), breakdownByServer |-> <<>>,
                     complexity |-> "Low"]
        /\ response.status = 200
        /\ response.body = result

\* C6 as stated: totalTime is the sum of the estimatedTime values of the
\* breakdown, in whatever order they are added; the empty batch gives 0, []
\* and Low.
C6_SumInAnyOrder ==
    /\ HasResult =>
          \A p \in Orders(Len(Entries)) : result.totalTime = SumInOrder(Entries, p)
    /\ EmptyBatchResult

\* C6 as amended: totalTime is the sum of the estimatedTime values of the
\* breakdown added up from 0 in input order; the empty batch gives 0, [] and
\* Low.
C6_SumInInputOrder ==
    /\ HasResult =>
          /\ result.totalTime = SumInOrder(Entries, [i \in 1..Len(Entries) |-> i])
          /\ response.body.totalTime = StringifyNumber(result.totalTime)
    /\ EmptyBatchResult

C6_Witness ==
    /\ HasResult
    /\ Len(Entries) = MaxLen
    /\ response.body.totalTime # Null
    /\ \E p \in Orders(Len(Entries)) : result.totalTime # SumInOrder(Entries, p)

\* C7: a result has one entry per record, in input order; entry i has the
\* type, manufacturer, model and quantity of record i, and its estimatedTime
\* is what the same record with another model would get.  The response
\* writes each of the four as JSON.stringify writes it: a string and a
\* finite quantity as they are.
C7_BreakdownEchoesInput ==
    HasResult =>
        /\ Len(Entries) = Len(Servers)
        /\ Len(Breakdown) = Len(Servers)
        /\ \A i \in 1..Len(Servers) :
              /\ Entries[i].type = Servers[i].type
              /\ Entries[i].manufacturer = Servers[i].manufacturer
              /\ Entries[i].model = Servers[i].model
              /\ Entries[i].quantity = Servers[i].quantity
              /\ \A f \in {"type", "manufacturer", "model", "quantity"} :
                    /\ Breakdown[i][f] = StringifyValue(Servers[i][f])
                    /\ Servers[i][f].kind = "string" => Breakdown[i][f] = Servers[i][f]
              /\ ~Servers[i].quantity.value.inf
                    => Breakdown[i].quantity = Servers[i].quantity
              /\ \A o \in {Str("R740"), Str("X"), Str("other")} :
                    Entries[i].estimatedTime
                       = Callback([Servers[i] EXCEPT !.model = o]).entry.estimatedTime

C7_Witness ==
    /\ HasResult
    /\ Len(Entries) = MaxLen
    /\ Entries[1].model # Entries[MaxLen].model
    /\ Entries[1].manufacturer # Entries[MaxLen].manufacturer
    /\ Entries[1].quantity # Entries[MaxLen].quantity
    /\ \E i \in 1..MaxLen : Breakdown[i].model # Entries[i].model

\* The first record of the batch that is not valid.
FirstInvalid ==
    CHOOSE i \in 1..Len(Servers) :
        /\ ~IsValidRecord(Servers[i])
        /\ \A j \in 1..(i - 1) : IsValidRecord(Servers[j])

\* C8: a POST whose body is not JSON, is not an array or holds a rejected
\* record is answered 400 with a body of the one field error, holding the
\* message of the failure; a batch of valid records is never answered 400.
C8_FailuresAre400 ==
    (Responded /\ IsPost) =>
        /\ request.body.kind = "unparseable" =>
              /\ response.status = 400
              /\ response.body = [error |-> SyntaxErrorMessage]
        /\ request.body.kind \notin {"unparseable", "array"} =>
              /\ response.status = 400
              /\ response.body = [error |-> "Input must be an array of servers"]
        /\ (IsBatch /\ ~AllValid) =>
              /\ response.status = 400
              /\ DOMAIN response.body = {"error"}
        /\ (IsBatch /\ AllValid) => response.status # 400

\* C9: every response carries the four cross-origin headers with their fixed
\* values; a request that is not a POST is answered without reading the body
\* or running the estimation, 200 for OPTIONS and 405 otherwise, never 400.
C9_CorsOnEveryResponse ==
    Responded =>
        /\ {"Access-Control-Allow-Origin", "Access-Control-Allow-Methods",
            "Access-Control-Max-Age", "Access-Control-Allow-Headers"}
              \subseteq DOMAIN response.headers
        /\ response.headers["Access-Control-Allow-Origin"] = "*"
        /\ response.headers["Access-Control-Allow-Methods"] = "POST,OPTIONS"
        /\ response.headers["Access-Control-Max-Age"] = "86400"
        /\ response.headers["Access-Control-Allow-Headers"] = "Content-Type"
        /\ ~IsPost =>
              /\ calls = <<>>
              /\ servers = NotAssigned /\ result = NotAssigned
              /\ response.status = IF request.method = "OPTIONS" THEN 200 ELSE 405
        /\ IsPost =>
              /\ response.status \in {200, 400}
              /\ calls[1] = "request.json"

C9_Witness ==
    /\ Responded
    /\ request.method = "OPTIONS"
    /\ request.body.kind = "array"
    /\ Len(request.body.items) = MaxLen
    /\ request.body.items[1] = Null
    /\ response.status = 200
    /\ calls = <<>>

\* The reason for rejecting one record, by the checks in their fixed order.
Reason(s) ==
    IF s.kind \notin {"object", "array"} THEN "Invalid server object"
    ELSE IF Get(s, "type") \in Falsy THEN "Missing required field: type"
    ELSE IF Get(s, "manufacturer") \in Falsy THEN "Missing required field: manufacturer"
    ELSE IF Get(s, "model") \in Falsy THEN "Missing required field: model"
    ELSE IF Get(s, "quantity") \in Falsy THEN "Missing required field: quantity"
    ELSE IF s.type \notin ServerTypes THEN "Invalid server type"
    ELSE "Quantity must be a positive number"

\* C10: a failed batch reports the first failing check of its first invalid
\* record; quantity -1 or "five" is reported as a quantity that is not a
\* positive number, quantity 0 as a missing field.
C10_FirstFailingCheck ==
    (Responded /\ IsPost /\ IsBatch /\ ~AllValid) =>
        LET s == Servers[FirstInvalid] IN
        /\ response.body = [error |-> Reason(s)]
        /\ (s.kind = "object" /\ s.type \in ServerTypes
            /\ s.manufacturer \notin Falsy /\ s.model \notin Falsy) =>
              /\ s.quantity \in {Number(FromDecimal(-1, 0)), Str("five")}
                    => response.body.error = "Quantity must be a positive number"
              /\ s.quantity = Number(Zero)
                    => response.body.error = "Missing required field: quantity"
====
